---------------------------- MODULE Spec2Model ----------------------------
(***************************************************************************)
(* A model of puckpy/backends/nhlapi.py: the URL builders, the HTTP GET    *)
(* wrapper, the recursive JSON flattening, the fuzzy name-to-id searches   *)
(* and the two data-fetching functions.                                    *)
(*                                                                         *)
(* Python values are represented as follows.                               *)
(*   - None is the empty tuple, a given optional value x is <<x>>.         *)
(*   - A dict is the sequence of its <<key, value>> items in insertion     *)
(*     order, with pairwise distinct keys.                                 *)
(*   - A JSON value is [leaf |-> v] (anything that is not a dict) or       *)
(*     [dict |-> d] (a nested dict).                                       *)
(***************************************************************************)
EXTENDS Integers, Sequences, FiniteSets, TLC

VARIABLES
    pc,        \* where the running call stands
    call,      \* the running call: the function and its arguments
    requests,  \* the URLs requested so far, in order
    response,  \* the HTTP response not yet read by the code, or None
    result,    \* the value returned by the call, or None
    err        \* the exception that ended the call, or "none"

vars == <<pc, call, requests, response, result, err>>

None == <<>>
Some(x) == <<x>>

-----------------------------------------------------------------------------
(* Bounds of the model.                                                    *)

\* Greatest nesting depth of a dict given to unroll_json.
MaxDepth == 3
\* Greatest number of items, over all nesting levels, of such a dict.
MaxItems == 3

\* JSON keys; "a_b" is also what the path a, b is flattened to.
Keys == {"a", "b", "a_b"}
\* JSON leaf values.
Vals == {1, 2}
\* Prefixes given to unroll_json.
Prefixes == {None, Some("p")}

-----------------------------------------------------------------------------
(* Python dicts.                                                           *)

Leaf(v) == [leaf |-> v]
Dict(d) == [dict |-> d]
IsDict(v) == "dict" \in DOMAIN v

DictKeys(d) == {d[i][1] : i \in 1..Len(d)}
DictHas(d, k) == k \in DictKeys(d)
DictGet(d, k) == d[CHOOSE i \in 1..Len(d) : d[i][1] = k][2]

\* d[k] = v: an existing key keeps its place and takes the new value.
DictSet(d, k, v) ==
    IF DictHas(d, k)
    THEN [i \in 1..Len(d) |-> IF d[i][1] = k THEN <<k, v>> ELSE d[i]]
    ELSE Append(d, <<k, v>>)

\* d.update(e)
RECURSIVE DictUpdate(_, _)
DictUpdate(d, e) ==
    IF e = <<>> THEN d
    ELSE DictUpdate(DictSet(d, Head(e)[1], Head(e)[2]), Tail(e))

-----------------------------------------------------------------------------
(* unroll_json                                                             *)

\* f"{prefix}_{k}" if prefix is not None else k
PrefixedKey(prefix, k) ==
    IF prefix # None THEN prefix[1] \o "_" \o k ELSE k

\* A mutation of the blacklist test: the prefixed key is looked up.
IsBlacklisted_prefixed(k, key, blacklist) == key \in blacklist

\* k in blacklist
IsBlacklisted(k, key, blacklist) == k \in blacklist

RECURSIVE unroll_items(_, _, _, _)
\* blacklist = [] if blacklist is None else blacklist
\* output = {}; for k, v in content.items(): ...; return output
unroll_json(content, blacklist, prefix) ==
    unroll_items(content, IF blacklist = None THEN {} ELSE blacklist[1],
                 prefix, <<>>)

\* The loop of unroll_json over the items still to visit, with the output
\* built so far.
unroll_items(items, blacklist, prefix, output) ==
    IF items = <<>> THEN output
    ELSE LET k == Head(items)[1]
             v == Head(items)[2]
             key == PrefixedKey(prefix, k)
         IN  IF IsBlacklisted(k, key, blacklist)
             THEN unroll_items(Tail(items), blacklist, prefix, output)
             ELSE IF IsDict(v)
             THEN unroll_items(Tail(items), blacklist, prefix,
                      DictUpdate(output,
                          unroll_json(v.dict, Some(blacklist), Some(key))))
             ELSE unroll_items(Tail(items), blacklist, prefix,
                      DictSet(output, key, v))

-----------------------------------------------------------------------------
(* The inputs of unroll_json.                                              *)

\* The dicts of depth at most d with at most n items over all levels.
RECURSIVE DictsOf(_, _)
DictsOf(d, n) ==
    IF d = 0 \/ n = 0 THEN {<<>>}
    ELSE {<<>>} \cup UNION {
            {<<<<t[1], t[2]>>>> \o t[3] :
                t \in {u \in {<<k, v, rest>> :
                                 k \in Keys,
                                 v \in (IF i = 0
                                        THEN {Leaf(x) : x \in Vals}
                                                 \cup {Dict(<<>>)}
                                        ELSE {Dict(c) :
                                                 c \in DictsOf(d - 1, i)
                                                          \ {<<>>}}),
                                 rest \in DictsOf(d, n - 1 - i)} :
                          ~DictHas(u[3], u[1])}}
            : i \in 0..(n - 1) }

Blacklists == {None} \cup {Some(S) : S \in SUBSET Keys}

InitUnroll ==
    /\ pc = "called"
    /\ \E c \in DictsOf(MaxDepth, MaxItems), bl \in Blacklists,
          p \in Prefixes :
           call = [fn |-> "unroll_json", content |-> c, blacklist |-> bl,
                   prefix |-> p]
    /\ requests = <<>>
    /\ response = None
    /\ result = None
    /\ err = "none"

RunUnroll ==
    /\ pc = "called"
    /\ call.fn = "unroll_json"
    /\ result' = Some(unroll_json(call.content, call.blacklist, call.prefix))
    /\ pc' = "done"
    /\ UNCHANGED <<call, requests, response, err>>

SpecUnroll == InitUnroll /\ [][RunUnroll]_vars

-----------------------------------------------------------------------------
(* NHL API URLs.                                                           *)

BASE_URL == "https://statsapi.web.nhl.com/api/v1/"

\* os.path.join(BASE_URL, "teams"): BASE_URL ends with a slash.
get_team_url == BASE_URL \o "teams"

\* os.path.join(get_team_url(), f"{team_id}?expand=team.roster")
get_roster_url(team_id) ==
    get_team_url \o "/" \o ToString(team_id) \o "?expand=team.roster"

\* os.path.join(BASE_URL, f"people/{player_id}")
get_player_url(player_id) == BASE_URL \o "people/" \o ToString(player_id)

\* A season "aaaabbbb" is the pair of its two years, <<"aaaa", "bbbb">>.
get_player_games_stats_url(player_id, season) ==
    get_player_url(player_id) \o "/" \o "stats?stats=gameLog&season="
        \o season[1] \o season[2]

get_schedule_url == BASE_URL \o "schedule"

\* season[:4] and season[4:] are the two years.
get_schedule_for_team_url(team_id, season) ==
    get_schedule_url \o "/" \o "?teamId=" \o ToString(team_id)
        \o "&startDate=" \o season[1] \o "-09-01&endDate=" \o season[2]
        \o "-09-01"

-----------------------------------------------------------------------------
(* get                                                                     *)

\* A mutation of get: every 2xx status counts as a success.
get_any_2xx(res) ==
    IF res.status_code < 200 \/ res.status_code > 299
    THEN [raise |-> "HTTPError"]
    ELSE [ret |-> res.json]

\* The part of get after requests.get(url) has answered with res: either
\* the exception raised or the value returned.
get(res) ==
    IF res.status_code # 200
    THEN [raise |-> "HTTPError"]
    ELSE [ret |-> res.json]

Raised(outcome) == "raise" \in DOMAIN outcome

-----------------------------------------------------------------------------
(* The fuzzy searches.                                                     *)

\* The score fuzzywuzzy's default scorer gives a choice against the query:
\* a fixed table for each of the two queries, with equal and with
\* different scores.
Score(query, choice) ==
    IF query = "Canad"
    THEN [Canadiens |-> 90, Canucks |-> 90, Capitals |-> 50, Kings |-> 50,
          Stars |-> 0][choice]
    ELSE [Canadiens |-> 30, Canucks |-> 86, Capitals |-> 86, Kings |-> 86,
          Stars |-> 100][choice]

\* The place in the scored list sl of the entry that comes first when sl is
\* sorted by decreasing score, earlier entries first among equal scores.
BestIndex(sl) ==
    CHOOSE i \in 1..Len(sl) :
        \A j \in 1..Len(sl) :
            \/ sl[j][2] < sl[i][2]
            \/ (sl[j][2] = sl[i][2] /\ i <= j)

RemoveAt(s, i) == SubSeq(s, 1, i - 1) \o SubSeq(s, i + 1, Len(s))

\* heapq.nlargest(limit, sl, key=lambda i: i[1])
RECURSIVE nlargest(_, _)
nlargest(limit, sl) ==
    IF limit = 0 \/ sl = <<>> THEN <<>>
    ELSE LET i == BestIndex(sl)
         IN  <<sl[i]>> \o nlargest(limit - 1, RemoveAt(sl, i))

\* A mutation of process.extract: the first choices, not the best ones.
extract_first(query, choices, limit) ==
    LET sl == [i \in 1..Len(choices) |->
                  <<choices[i], Score(query, choices[i])>>]
    IN  SubSeq(sl, 1, IF Len(sl) < limit THEN Len(sl) ELSE limit)

\* process.extract(query, choices, limit=limit): the (choice, score) pairs
\* of the limit best choices, best first.
extract(query, choices, limit) ==
    LET sl == [i \in 1..Len(choices) |->
                  <<choices[i], Score(query, choices[i])>>]
    IN  nlargest(limit, sl)

\* {t[nameField]: t["id"] for t in entries}
RECURSIVE DictOfNames(_, _)
DictOfNames(entries, d) ==
    IF entries = <<>> THEN d
    ELSE DictOfNames(Tail(entries),
                     DictSet(d, Head(entries).name, Head(entries).id))

\* list(d.keys())
KeyList(d) == [i \in 1..Len(d) |-> d[i][1]]

\* pd.Series(data=[d[res[0]] for res in choices],
\*           index=[res[0] for res in choices])
SeriesOf(d, choices) ==
    [i \in 1..Len(choices) |->
        [index |-> choices[i][1], value |-> DictGet(d, choices[i][1])]]

\* The candidates limit of both searches.
SearchLimit == 3

\* find_team_id after get has returned json.
find_team_id(team_name, json) ==
    LET teams == DictOfNames(json.teams, <<>>)
        team_choices == extract(team_name, KeyList(teams), SearchLimit)
    IN  SeriesOf(teams, team_choices)

\* The persons of a roster: p["person"] for p in roster, the fullName as
\* name.
Persons(roster) ==
    [i \in 1..Len(roster) |->
        [name |-> roster[i].person.fullName, id |-> roster[i].person.id]]

\* find_player_id after get has returned the roster's json.
find_player_id(player_name, json) ==
    LET roster == json.teams[1].roster.roster
        players == DictOfNames(Persons(roster), <<>>)
        player_choices ==
            extract(player_name, KeyList(players), SearchLimit)
    IN  SeriesOf(players, player_choices)

\* A mutation of the team chosen by find_player_id: the last of the three.
iloc_last(series) == series[Len(series)].value

\* series.iloc[0], of a series that is not empty.
iloc_0(series) == series[1].value

\* A mutation of find_player_id's check: only the missing parameters are
\* refused.
BadParameters_missing(team_id, team_name) ==
    team_id = None /\ team_name = None

\* The two checks of find_player_id's parameters.
BadParameters(team_id, team_name) ==
    \/ (team_id # None /\ team_name # None)
    \/ (team_id = None /\ team_name = None)

-----------------------------------------------------------------------------
(* The tables of the data fetching functions.                              *)

\* A date "yyyy-mm-dd" is the triple <<yyyy, mm, dd>>. pd.to_datetime turns
\* it into a point in time, here the number of the day.
to_datetime(date) == (date[1] * 12 + (date[2] - 1)) * 31 + date[3]

\* The columns of pd.DataFrame(record_list): the keys of all the records.
Columns(record_list) ==
    UNION {DictKeys(record_list[i]) : i \in 1..Len(record_list)}

\* A dict without key k.
RECURSIVE DictWithout(_, _)
DictWithout(d, k) ==
    IF d = <<>> THEN <<>>
    ELSE IF Head(d)[1] = k THEN DictWithout(Tail(d), k)
    ELSE <<Head(d)>> \o DictWithout(Tail(d), k)

\* data.set_index("date"); data.index = pd.to_datetime(data.index), of a
\* frame that has the column: each row is its index value and the other
\* columns of its record.
set_index(record_list) ==
    [i \in 1..Len(record_list) |->
        [index |-> to_datetime(DictGet(record_list[i], "date").leaf),
         record |-> DictWithout(record_list[i], "date")]]

\* A row put into rows, which are sorted by index, after the rows that do
\* not come later.
RECURSIVE InsertRow(_, _)
InsertRow(rows, r) ==
    IF rows = <<>> THEN <<r>>
    ELSE IF r.index < Head(rows).index THEN <<r>> \o rows
    ELSE <<Head(rows)>> \o InsertRow(Tail(rows), r)

RECURSIVE sort_rows(_, _)
sort_rows(rows, sorted) ==
    IF rows = <<>> THEN sorted
    ELSE sort_rows(Tail(rows), InsertRow(sorted, Head(rows)))

\* data.sort_index(): the rows by non-decreasing index. Rows of equal index
\* keep their order here; no formula below reads the order among them.
sort_index(rows) == sort_rows(rows, <<>>)

\* A mutation of the table: one row is kept for each index value.
RECURSIVE FirstOfEachIndex(_, _)
FirstOfEachIndex(rows, seen) ==
    IF rows = <<>> THEN <<>>
    ELSE IF Head(rows).index \in seen
    THEN FirstOfEachIndex(Tail(rows), seen)
    ELSE <<Head(rows)>>
             \o FirstOfEachIndex(Tail(rows), seen \cup {Head(rows).index})

table_of_unique(record_list) ==
    IF "date" \notin Columns(record_list)
    THEN [raise |-> "KeyError"]
    ELSE [ret |-> sort_index(FirstOfEachIndex(set_index(record_list), {}))]

\* data = pd.DataFrame(record_list); data.set_index("date", inplace=True);
\* data.index = pd.to_datetime(data.index); data.sort_index(inplace=True):
\* set_index raises KeyError when the frame has no column "date".
table_of(record_list) ==
    IF "date" \notin Columns(record_list)
    THEN [raise |-> "KeyError"]
    ELSE [ret |-> sort_index(set_index(record_list))]

\* The inner loop of get_player_games_stats over the items of v1.
RECURSIVE stat_items(_, _, _)
stat_items(k1, items, game_record) ==
    IF items = <<>> THEN game_record
    ELSE LET k2 == Head(items)[1]
             v2 == Head(items)[2]
             key == IF k1 # "stat" THEN k1 \o "_" \o k2 ELSE k2
         IN  stat_items(k1, Tail(items), DictSet(game_record, key, v2))

\* The loop of get_player_games_stats over the items of one split.
RECURSIVE game_record_of(_, _)
game_record_of(items, game_record) ==
    IF items = <<>> THEN game_record
    ELSE LET k1 == Head(items)[1]
             v1 == Head(items)[2]
         IN  IF IsDict(v1)
             THEN game_record_of(Tail(items),
                                 stat_items(k1, v1.dict, game_record))
             ELSE game_record_of(Tail(items), DictSet(game_record, k1, v1))

\* get_player_games_stats after get has returned json.
get_player_games_stats(json) ==
    LET games_stats == json.stats[1].splits
        game_record_list ==
            [i \in 1..Len(games_stats) |->
                game_record_of(games_stats[i], <<>>)]
    IN  table_of(game_record_list)

\* The records of one date entry of the schedule.
schedule_records_of(schedule) ==
    [g \in 1..Len(schedule.games) |->
        DictUpdate(<<<<"date", Leaf(schedule.date)>>>>,
                   unroll_json(schedule.games[g], None, None))]

RECURSIVE schedule_record_list(_)
schedule_record_list(schedules) ==
    IF schedules = <<>> THEN <<>>
    ELSE schedule_records_of(Head(schedules))
             \o schedule_record_list(Tail(schedules))

\* get_team_games_schedule after get has returned json.
get_team_games_schedule(json) ==
    table_of(schedule_record_list(json.dates))

-----------------------------------------------------------------------------
(* The answers of the API.                                                 *)

\* Greatest number of teams, and of players of a roster, in an answer.
MaxTeams == 4
\* Greatest number of date entries of a schedule.
MaxDates == 2
\* Greatest number of games of a date entry.
MaxGames == 2
\* Greatest number of splits of a game log.
MaxSplits == 3

StatusCodes == {200, 201, 204, 404, 500}

\* The names of the teams and of the players; Score gives each its score.
Names == {"Canadiens", "Canucks", "Capitals", "Kings", "Stars"}

NameLists == UNION {[1..n -> Names] : n \in 0..MaxTeams}

\* {"teams": [{"name": ..., "id": ...}, ...]}: the id of an entry is its
\* place in the list, so that entries of the same name differ in their id.
TeamsBody(ns) ==
    [teams |-> [i \in 1..Len(ns) |-> [name |-> ns[i], id |-> i]]]

\* {"teams": [{"roster": {"roster": [{"person": {"fullName": ...,
\* "id": ...}}, ...]}}]}
RosterBody(ns) ==
    [teams |-> <<[roster |-> [roster |->
        [i \in 1..Len(ns) |->
            [person |-> [fullName |-> ns[i], id |-> 100 + i]]]]]>>]

\* The dates of the games.
Dates == {<<2019, 1, 5>>, <<2019, 2, 1>>}
\* The value of a key "date" of a game object itself.
OwnDate == <<2018, 12, 25>>

\* A game object of the schedule with its number; one of shape "dated" has
\* a key "date" of its own at the top level.
GameShapes == {"plain", "dated"}
Game(gamePk, shape) ==
    <<<<"gamePk", Leaf(gamePk)>>,
      <<"status", Dict(<<<<"statusCode", Leaf(7)>>>>)>>>>
    \o (IF shape = "dated" THEN <<<<"date", Leaf(OwnDate)>>>> ELSE <<>>)

ShapeLists == UNION {[1..n -> GameShapes] : n \in 0..MaxGames}

\* {"dates": [{"date": ..., "games": [...]}, ...]}: the games are numbered
\* by the place of their entry and their place in it.
ScheduleBody(ds, shapes) ==
    [dates |-> [e \in 1..Len(ds) |->
        [date |-> ds[e],
         games |-> [g \in 1..Len(shapes[e]) |->
                       Game(10 * e + g, shapes[e][g])]]]]

\* A split of a game log.
Split(date) ==
    <<<<"season", Leaf(20182019)>>,
      <<"stat", Dict(<<<<"goals", Leaf(1)>>, <<"assists", Leaf(0)>>>>)>>,
      <<"team", Dict(<<<<"id", Leaf(8)>>>>)>>,
      <<"date", Leaf(date)>>>>

\* {"stats": [{"splits": [...]}]}
StatsBody(ds) ==
    [stats |-> <<[splits |-> [i \in 1..Len(ds) |-> Split(ds[i])]]>>]

\* {"people": [{"id": ...}, ...]}
PeopleBody(ids) == [people |-> [i \in 1..Len(ids) |-> [id |-> ids[i]]]]

\* The arguments of the calls.
TeamId == 8
PlayerId == 8471679
Season == <<"2018", "2019">>
TeamName == "Canad"
PlayerName == "Price"

-----------------------------------------------------------------------------
(* The calls.                                                              *)

Init ==
    /\ pc = "idle"
    /\ call = None
    /\ requests = <<>>
    /\ response = None
    /\ result = None
    /\ err = "none"

\* requests.get(url) is entered: the request leaves and the code waits.
Request(url, at) ==
    /\ requests' = Append(requests, url)
    /\ response' = None
    /\ pc' = at

\* The call ends with what out says: an exception or a returned value.
Finish(out) ==
    /\ pc' = IF Raised(out) THEN "raised" ELSE "done"
    /\ err' = IF Raised(out) THEN out.raise ELSE "none"
    /\ result' = IF Raised(out) THEN None ELSE Some(out.ret)
    /\ UNCHANGED <<call, requests, response>>

Waiting == {"get", "find_team_id", "find_player_id_teams",
            "find_player_id_roster", "get_player_games_stats",
            "get_team_games_schedule"}

\* The API answers the pending request with status and json.
Answer(status, json) ==
    /\ response' = Some([status_code |-> status, json |-> json])
    /\ UNCHANGED <<pc, call, requests, result, err>>

Respond_people ==
    /\ response = None
    /\ pc = "get"
    /\ \E ids \in {<<>>, <<8471679>>} : Answer(200, PeopleBody(ids))

Respond_teams ==
    /\ response = None
    /\ pc \in {"find_team_id", "find_player_id_teams"}
    /\ \E ns \in NameLists : Answer(200, TeamsBody(ns))

Respond_roster ==
    /\ response = None
    /\ pc = "find_player_id_roster"
    /\ \E ns \in NameLists : Answer(200, RosterBody(ns))

Respond_stats ==
    /\ response = None
    /\ pc = "get_player_games_stats"
    /\ \E n \in 0..MaxSplits : \E ds \in [1..n -> Dates] :
           Answer(200, StatsBody(ds))

Respond_schedule ==
    /\ response = None
    /\ pc = "get_team_games_schedule"
    /\ \E n \in 0..MaxDates :
           \E ds \in [1..n -> Dates], shapes \in [1..n -> ShapeLists] :
               Answer(200, ScheduleBody(ds, shapes))

\* The body of an answer whose status is not 200: one body, of the shape
\* the request asks for.
OtherBodyAt(at) ==
    CASE at = "get" -> PeopleBody(<<8471679>>)
      [] at \in {"find_team_id", "find_player_id_teams"} ->
            TeamsBody(<<"Stars">>)
      [] at = "find_player_id_roster" -> RosterBody(<<"Stars">>)
      [] at = "get_player_games_stats" -> StatsBody(<<<<2019, 1, 5>>>>)
      [] at = "get_team_games_schedule" ->
            ScheduleBody(<<<<2019, 1, 5>>>>, <<<<"plain">>>>)

Respond_other ==
    /\ response = None
    /\ pc \in Waiting
    /\ \E status \in StatusCodes \ {200} : Answer(status, OtherBodyAt(pc))

Call_get(url) ==
    /\ pc = "idle"
    /\ call' = [fn |-> "get", url |-> url]
    /\ Request(url, "get")
    /\ UNCHANGED <<result, err>>

Return_get ==
    /\ pc = "get"
    /\ response # None
    /\ Finish(get(response[1]))

Call_find_team_id(team_name) ==
    /\ pc = "idle"
    /\ call' = [fn |-> "find_team_id", team_name |-> team_name]
    /\ Request(get_team_url, "find_team_id")
    /\ UNCHANGED <<result, err>>

Return_find_team_id ==
    /\ pc = "find_team_id"
    /\ response # None
    /\ LET out == get(response[1])
       IN  Finish(IF Raised(out) THEN out
                  ELSE [ret |-> find_team_id(call.team_name, out.ret)])

\* find_player_id up to its first request, or to the exception its checks
\* raise.
Call_find_player_id(player_name, team_id, team_name) ==
    /\ pc = "idle"
    /\ call' = [fn |-> "find_player_id", player_name |-> player_name,
                team_id |-> team_id, team_name |-> team_name,
                roster_of |-> team_id]
    /\ IF BadParameters(team_id, team_name)
       THEN /\ pc' = "raised"
            /\ err' = "AttributeError"
            /\ UNCHANGED <<requests, response, result>>
       ELSE /\ IF team_id = None
               THEN Request(get_team_url, "find_player_id_teams")
               ELSE Request(get_roster_url(team_id[1]),
                            "find_player_id_roster")
            /\ UNCHANGED <<result, err>>

\* team_id = find_team_id(team_name).iloc[0], from the answer on, and the
\* request of the roster.
Teams_find_player_id ==
    /\ pc = "find_player_id_teams"
    /\ response # None
    /\ LET out == get(response[1])
           series == find_team_id(call.team_name[1], out.ret)
       IN  IF Raised(out) THEN Finish(out)
           ELSE IF series = <<>> THEN Finish([raise |-> "IndexError"])
           ELSE /\ call' = [call EXCEPT !.roster_of = Some(iloc_0(series))]
                /\ Request(get_roster_url(iloc_0(series)),
                           "find_player_id_roster")
                /\ UNCHANGED <<result, err>>

Return_find_player_id ==
    /\ pc = "find_player_id_roster"
    /\ response # None
    /\ LET out == get(response[1])
       IN  Finish(IF Raised(out) THEN out
                  ELSE [ret |-> find_player_id(call.player_name, out.ret)])

Call_get_player_games_stats(player_id, season) ==
    /\ pc = "idle"
    /\ call' = [fn |-> "get_player_games_stats", player_id |-> player_id,
                season |-> season]
    /\ Request(get_player_games_stats_url(player_id, season),
               "get_player_games_stats")
    /\ UNCHANGED <<result, err>>

Return_get_player_games_stats ==
    /\ pc = "get_player_games_stats"
    /\ response # None
    /\ LET out == get(response[1])
       IN  Finish(IF Raised(out) THEN out
                  ELSE get_player_games_stats(out.ret))

Call_get_team_games_schedule(team_id, season) ==
    /\ pc = "idle"
    /\ call' = [fn |-> "get_team_games_schedule", team_id |-> team_id,
                season |-> season]
    /\ Request(get_schedule_for_team_url(team_id, season),
               "get_team_games_schedule")
    /\ UNCHANGED <<result, err>>

Return_get_team_games_schedule ==
    /\ pc = "get_team_games_schedule"
    /\ response # None
    /\ LET out == get(response[1])
       IN  Finish(IF Raised(out) THEN out
                  ELSE get_team_games_schedule(out.ret))

Next ==
    \/ Call_get(get_player_url(PlayerId))
    \/ Return_get
    \/ Call_find_team_id(TeamName)
    \/ Return_find_team_id
    \/ \E team_id \in {None, Some(TeamId)} :
        \E team_name \in {None, Some(TeamName)} :
            Call_find_player_id(PlayerName, team_id, team_name)
    \/ Teams_find_player_id
    \/ Return_find_player_id
    \/ Call_get_player_games_stats(PlayerId, Season)
    \/ Return_get_player_games_stats
    \/ Call_get_team_games_schedule(TeamId, Season)
    \/ Return_get_team_games_schedule
    \/ Respond_people
    \/ Respond_teams
    \/ Respond_roster
    \/ Respond_stats
    \/ Respond_schedule
    \/ Respond_other

Spec == Init /\ [][Next]_vars

-----------------------------------------------------------------------------
(* The calls that talk to the API: what is expected of them.               *)

Ended == pc \in {"done", "raised"}
Status == response[1].status_code
Fn == IF call = None THEN "none" ELSE call.fn

\* C1: a call returns only after an answer of status 200, get returns that
\* answer's body, and an answer of any other status, other 2xx included,
\* ends the call with HTTPError and no returned value.
C1_GetRaisesUnless200 ==
    /\ pc = "done" => response # None /\ Status = 200
    /\ (pc = "done" /\ Fn = "get") => result = Some(response[1].json)
    /\ (Ended /\ response # None /\ Status # 200) =>
           pc = "raised" /\ err = "HTTPError" /\ result = None
    /\ err = "HTTPError" => response # None /\ Status # 200

\* C1's case: get has read an answer with a 2xx status other than 200.
C1_Witness ==
    /\ Fn = "get"
    /\ Ended
    /\ response # None
    /\ Status \in {201, 204}

BothMissing == call.team_id = None /\ call.team_name = None
BothGiven == call.team_id # None /\ call.team_name # None

\* C2: find_player_id with both team_id and team_name missing, or both
\* given, ends with an error before any request; with exactly one of them it
\* goes on to a request.
C2_ParametersChecked ==
    Fn = "find_player_id" =>
        IF BothMissing \/ BothGiven
        THEN /\ pc = "raised"
             /\ err = "AttributeError"
             /\ requests = <<>>
             /\ response = None
        ELSE /\ Len(requests) >= 1
             /\ err # "AttributeError"

\* C2's case: both parameters were given and the call has ended.
C2_Witness ==
    /\ Fn = "find_player_id"
    /\ BothGiven
    /\ pc = "raised"

\* The candidates of the answer a search has read: <<name, id>> pairs in the
\* order of the answer.
CandidatesOf(fn, json) ==
    IF fn = "find_team_id"
    THEN [i \in 1..Len(json.teams) |->
             <<json.teams[i].name, json.teams[i].id>>]
    ELSE LET r == json.teams[1].roster.roster
         IN  [i \in 1..Len(r) |->
                 <<r[i].person.fullName, r[i].person.id>>]

QueryOf(c) ==
    IF c.fn = "find_team_id" THEN c.team_name ELSE c.player_name

SearchDone == pc = "done" /\ Fn \in {"find_team_id", "find_player_id"}

\* C4: a search returns min(3, n) entries for n distinct names, by
\* non-increasing score, no name left out scores higher than a returned one,
\* the labels are distinct, and each value is an id the answer gives for the
\* entry's label.
C4_TopThree ==
    SearchDone =>
        LET cands == CandidatesOf(call.fn, response[1].json)
            names == {cands[i][1] : i \in 1..Len(cands)}
            series == result[1]
            labels == {series[i].index : i \in 1..Len(series)}
            q == QueryOf(call)
        IN  /\ Len(series) =
                   IF Cardinality(names) < 3 THEN Cardinality(names) ELSE 3
            /\ Cardinality(labels) = Len(series)
            /\ \A i, j \in 1..Len(series) :
                   i < j =>
                       Score(q, series[i].index) >= Score(q, series[j].index)
            /\ \A n \in names \ labels : \A l \in labels :
                   Score(q, n) <= Score(q, l)
            /\ \A i \in 1..Len(series) :
                   \E k \in 1..Len(cands) :
                       cands[k] = <<series[i].index, series[i].value>>

\* C4's case: more than three distinct names, listed with a worse one before
\* a better one, and a name that is listed twice is returned.
C4_Witness ==
    /\ SearchDone
    /\ LET cands == CandidatesOf(call.fn, response[1].json)
           names == {cands[i][1] : i \in 1..Len(cands)}
           q == QueryOf(call)
       IN  /\ Cardinality(names) > 3
           /\ Len(result[1]) = 3
           /\ Score(q, cands[1][1]) < Score(q, cands[2][1])

RosterRequested == {"find_player_id_roster", "done"}

\* C7 as it stands: find_player_id with a team_name that met no status
\* other than 200 has issued exactly two requests when it ends.
C7_TwoRequestsWithTeamName ==
    (Fn = "find_player_id" /\ Ended /\ call.team_id = None
        /\ call.team_name # None /\ err # "HTTPError") =>
        Len(requests) = 2

\* The requests of find_player_id, state by state.
C7_Requests ==
    (Fn = "find_player_id" /\ ~(BothMissing \/ BothGiven)) =>
        /\ call.team_id # None =>
               requests = <<get_roster_url(call.team_id[1])>>
        /\ (call.team_id = None /\ pc = "find_player_id_teams") =>
               requests = <<get_team_url>>
        /\ (call.team_id = None /\ pc \in RosterRequested) =>
               requests =
                   <<get_team_url, get_roster_url(call.roster_of[1])>>
        /\ (call.team_id = None /\ pc = "raised") =>
               \/ /\ err = "HTTPError"
                  /\ Status # 200
                  /\ \/ requests = <<get_team_url>>
                     \/ requests =
                         <<get_team_url, get_roster_url(call.roster_of[1])>>
               \/ /\ err = "IndexError"
                  /\ Status = 200
                  /\ response[1].json.teams = <<>>
                  /\ requests = <<get_team_url>>
        /\ pc = "done" => err = "none" /\ Status = 200

\* The steps of find_player_id: the roster requested is that of the first
\* entry of find_team_id's result, a step adds at most one request, and the
\* step that reads an answer of a status other than 200 ends the call with
\* no request.
C7_Steps ==
    Fn = "find_player_id" =>
        /\ (pc = "find_player_id_teams" /\ pc' = "find_player_id_roster") =>
               /\ Status = 200
               /\ requests' = Append(requests, get_roster_url(
                      find_team_id(call.team_name[1],
                                   response[1].json)[1].value))
        /\ requests' # requests =>
               Len(requests') = Len(requests) + 1
        /\ (response # None /\ Status # 200) =>
               /\ requests' = requests
               /\ pc' = "raised"
               /\ err' = "HTTPError"

\* C7, amended: with a team_name, find_player_id requests the team list and
\* then, when that answer has status 200 and lists a team, the roster of the
\* first entry of find_team_id's result, two requests in all; an empty team
\* list ends the call with IndexError after the one request; with a team_id
\* it requests the roster only; an answer of a status other than 200 ends
\* the call with no further request.
C7_LinearNoRetry == [](C7_Requests) /\ [][C7_Steps]_vars

\* C7's case: a call with a team_name has ended after two requests, the
\* second for a team that was not listed first.
C7_Witness ==
    /\ Fn = "find_player_id"
    /\ pc = "done"
    /\ call.team_id = None
    /\ Len(requests) = 2
    /\ call.roster_of # Some(1)

FetchFns == {"get_player_games_stats", "get_team_games_schedule"}
FetchDone == pc = "done" /\ Fn \in FetchFns

\* The dates carried by the records of an answer, one for each game or
\* split, as points in time: the date of a split; the date of the game
\* object itself when it has one at its top level, else the date of the
\* entry that lists the game.
RECURSIVE Flatten(_)
Flatten(ss) == IF ss = <<>> THEN <<>> ELSE Head(ss) \o Flatten(Tail(ss))

RecordDates(fn, json) ==
    IF fn = "get_player_games_stats"
    THEN LET sp == json.stats[1].splits
         IN  [i \in 1..Len(sp) |-> to_datetime(DictGet(sp[i], "date").leaf)]
    ELSE Flatten([e \in 1..Len(json.dates) |->
             [g \in 1..Len(json.dates[e].games) |->
                 LET game == json.dates[e].games[g]
                 IN  to_datetime(IF DictHas(game, "date")
                                 THEN DictGet(game, "date").leaf
                                 ELSE json.dates[e].date)]])

IndexUnique(table) ==
    \A i, j \in 1..Len(table) : table[i].index = table[j].index => i = j

\* C3 as it stands: no two rows of a returned table share an index value.
C3_UniqueDateIndex == FetchDone => IndexUnique(result[1])

\* C3, amended: a returned table has one row for each game or split, and as
\* many rows of an index value as records of the answer carry that date; so
\* its index is unique exactly when those dates are pairwise distinct.
C3_IndexFollowsDates ==
    FetchDone =>
        LET dates == RecordDates(call.fn, response[1].json)
            table == result[1]
        IN  /\ Len(table) = Len(dates)
            /\ \A d \in {dates[i] : i \in 1..Len(dates)} :
                   Cardinality({i \in 1..Len(table) : table[i].index = d})
                       = Cardinality({i \in 1..Len(dates) : dates[i] = d})
            /\ IndexUnique(table) <=>
                   \A i, j \in 1..Len(dates) : dates[i] = dates[j] => i = j

\* C3's case: a schedule with two games under one date entry was turned into
\* a table, and two rows share an index value.
C3_Witness ==
    /\ FetchDone
    /\ Fn = "get_team_games_schedule"
    /\ \E e \in 1..Len(response[1].json.dates) :
           Len(response[1].json.dates[e].games) = 2
    /\ ~IndexUnique(result[1])

\* The games of a schedule answer: <<gamePk, date of the enclosing entry>>.
GamesOf(json) ==
    Flatten([e \in 1..Len(json.dates) |->
        [g \in 1..Len(json.dates[e].games) |->
            <<DictGet(json.dates[e].games[g], "gamePk"),
              json.dates[e].date>>]])

\* C8: the schedule table has one row for each game, each row's index is
\* the date of the entry that lists its game, and the rows are in
\* non-decreasing order of index.
C8_OneRowPerGame ==
    (pc = "done" /\ Fn = "get_team_games_schedule") =>
        LET games == GamesOf(response[1].json)
            table == result[1]
        IN  /\ Len(table) = Len(games)
            /\ \A i \in 1..Len(table) :
                   \E k \in 1..Len(games) :
                       /\ DictGet(table[i].record, "gamePk") = games[k][1]
                       /\ table[i].index = to_datetime(games[k][2])
            /\ \A i, j \in 1..Len(table) :
                   i < j => table[i].index <= table[j].index

\* C9: a data fetching call that has read an answer of status 200 ends by
\* returning a table.
C9_TableForEveryAnswer ==
    (Fn \in FetchFns /\ Ended /\ Status = 200) => pc = "done"

-----------------------------------------------------------------------------
(* What unroll_json is expected to return, stated on the input's leaves.   *)

\* The leaves of a dict: <<path, value>>, the path being the keys from the
\* top level down to the leaf.
RECURSIVE LeavesOf(_)
LeavesOf(d) ==
    UNION { LET k == d[i][1]
                v == d[i][2]
            IN  IF IsDict(v)
                THEN {<<<<k>> \o l[1], l[2]>> : l \in LeavesOf(v.dict)}
                ELSE {<<<<k>>, v>>}
            : i \in 1..Len(d) }

\* "k1_k2_..._kn"
RECURSIVE JoinPath(_)
JoinPath(path) ==
    IF Len(path) = 1 THEN path[1]
    ELSE path[1] \o "_" \o JoinPath(Tail(path))

\* The key a leaf path is expected under, given the prefix.
ExpectedKey(prefix, path) == PrefixedKey(prefix, JoinPath(path))

BlacklistOf(c) == IF c.blacklist = None THEN {} ELSE c.blacklist[1]

\* The leaves none of whose path keys is blacklisted.
KeptLeaves(c) ==
    {l \in LeavesOf(c.content) :
        \A i \in 1..Len(l[1]) : l[1][i] \notin BlacklistOf(c)}

UnrollDone == pc = "done" /\ call.fn = "unroll_json"

\* C5: the blacklist is applied at every depth, on the raw key: the keys of
\* the output are exactly the keys of the leaves whose path holds no
\* blacklisted key, and every output value is the value of such a leaf.
C5_BlacklistEveryDepth ==
    UnrollDone =>
        /\ DictKeys(result[1]) =
               {ExpectedKey(call.prefix, l[1]) : l \in KeptLeaves(call)}
        /\ \A i \in 1..Len(result[1]) :
               \E l \in KeptLeaves(call) :
                   /\ ExpectedKey(call.prefix, l[1]) = result[1][i][1]
                   /\ l[2] = result[1][i][2]

\* C5's case: a blacklisted key below the top level removes a subtree with a
\* leaf in it, a leaf is kept whose prefixed key is in the blacklist, and the
\* blacklist is not empty.
C5_Witness ==
    /\ UnrollDone
    /\ \E l \in LeavesOf(call.content) :
           /\ Len(l[1]) >= 2
           /\ l[1][1] \notin BlacklistOf(call)
           /\ l[1][2] \in BlacklistOf(call)
    /\ \E l \in KeptLeaves(call) :
           /\ Len(l[1]) = 2
           /\ ExpectedKey(None, l[1]) \in BlacklistOf(call)
           /\ DictHas(result[1], ExpectedKey(call.prefix, l[1]))

\* C6: the output holds no dict, and every leaf whose path holds no
\* blacklisted key is stored under its prefixed path key with its value.
C6_FlattenedWithValues ==
    UnrollDone =>
        /\ \A i \in 1..Len(result[1]) : ~IsDict(result[1][i][2])
        /\ \A l \in KeptLeaves(call) :
               /\ DictHas(result[1], ExpectedKey(call.prefix, l[1]))
               /\ DictGet(result[1], ExpectedKey(call.prefix, l[1])) = l[2]

\* C10: the output has as many entries as the input has leaves whose path
\* holds no blacklisted key.
C10_NoLeafLost ==
    UnrollDone => Len(result[1]) = Cardinality(KeptLeaves(call))

=============================================================================
